---------------------------- MODULE Spec2Model ----------------------------
(***************************************************************************)
(* subscriptions-app: the Patreon synchronisation loop (cmd/app/main.go),  *)
(* the Patreon client (pkg/patreon/client.go), the snapshot held by the    *)
(* server (internal/server/server.go) and the lookup handler that reads    *)
(* it (handleCommand).                                                      *)
(*                                                                         *)
(* Three goroutines are modelled: the scheduler (startPatreonLoop), the    *)
(* consumer of pledgeCh (the anonymous goroutine of main) and one request  *)
(* handler.  Time is a discrete clock; one unit stands for one day, and    *)
(* the clock may step between any two steps of the program.  Maps are      *)
(* objects of a heap, so that two references to one map are told apart     *)
(* from two equal maps.                                                    *)
(*                                                                         *)
(* Spec is the scheduler, the consumer and the clock; SpecLookup is the    *)
(* scheduler, the consumer and the request handler while the clock         *)
(* stands still; SpecTiers is the scheduler and the consumer under each    *)
(* of several tier mappings, while the clock stands still.                 *)
(***************************************************************************)
EXTENDS Integers, Sequences, FiniteSets, TLC

(* ------------------------------ bounds -------------------------------- *)
\* the clock stops stepping here
MaxTime == 6
\* number of token pairs the authorization endpoint hands out in a run
MaxIssued == 1
\* number of map objects the heap can hold (three can be live at once)
NRefs == 3

(* ------------------------- program constants -------------------------- *)
\* time.Hour*24*3, in days
RefreshWindow == 3
\* the zero time.Time of a Tokens value that was never loaded
ZeroTime == 0
\* the clock at process start: some time after the zero time
StartTime == ZeroTime + 1
\* nil map reference
NilRef == 0

(* --------------------------- option values ---------------------------- *)
None == {}
Some(x) == {x}
The(o) == CHOOSE x \in o : TRUE

(* ------------------------------ inputs -------------------------------- *)
\* config.Tiers: tier id -> display name
Tiers == (10 :> "Gold")

FirstUrl == "members"

Member(email, user, tiers) == [Email |-> email, UserId |-> user, Tiers |-> tiers]
Incl(id, discord) == [Id |-> id, Discord |-> discord]

\* Responses of the membership endpoint, by requested url.  Campaign A has
\* two pages: a member without email, an unknown tier, two members linked
\* to the same Discord account, and an email that is listed twice, the
\* second time with a user whose first included resource has no linked
\* account and whose second has one, and on the first page a member whose
\* user is included on the second page only.  Campaign B is a single page
\* whose only member has no email.
PageA1 ==
  [Data |-> << Member("a@x", 1, <<10, 99>>), Member("", 2, <<10>>),
               Member("c@x", 8, <<>>) >>,
   Included |-> << Incl(1, Some(7)), Incl(2, Some(8)) >>,
   Next |-> Some("members?page=2")]
PageA2 ==
  [Data |-> << Member("c@x", 6, <<99>>), Member("b@x", 3, <<>>),
               Member("c@x", 4, <<99, 10>>) >>,
   Included |-> << Incl(6, Some(9)), Incl(3, Some(7)), Incl(4, None),
                   Incl(4, Some(8)), Incl(8, Some(5)) >>,
   Next |-> None]
PageB1 ==
  [Data |-> << Member("", 5, <<10>>) >>,
   Included |-> << Incl(5, Some(9)) >>,
   Next |-> None]

Responses(u) ==
  IF u = FirstUrl THEN {PageA1, PageB1} ELSE {PageA2}

Urls == {FirstUrl, "members?page=2"}

\* values of config.Tiers that a deployment may configure
TierMappings == {Tiers, (10 :> "Gold" @@ 99 :> "Silver"), (99 :> "Silver"),
                 [t \in {} |-> ""]}

\* expires_in values of a refresh response, in days
ExpiresIns == {2, 5}

\* expires_at of the persisted row at startup
InitExpiries == {StartTime + RefreshWindow + 1}

(* --------------------------- configuration ---------------------------- *)
VARIABLES
  configTiers,        \* c.config.Tiers, as loaded at startup
  queryErr,           \* the err of the SELECT in NewClient (client.go:33)
  patreonClient       \* main's patreonClient: None (nil) or Some("client")

(* ----------------------- FetchPledges, per entry ---------------------- *)
EmptyMap == << >>

Put(m, k, v) == [x \in (DOMAIN m) \cup {k} |-> IF x = k THEN v ELSE m[x]]

\* (variant: unknown tiers are kept)
ParseTiersKeepAll(tiers) == tiers

\* client.go:151-160
ParseTiers(tiers) == SelectSeq(tiers, LAMBDA t : t \in DOMAIN configTiers)

\* (variant: the scan goes on past a resource without a linked account)
RECURSIVE ResolveDiscordIdNoBreak(_, _, _)
ResolveDiscordIdNoBreak(id, included, i) ==
  IF i > Len(included) THEN None
  ELSE IF included[i].Id = id /\ included[i].Discord # None
       THEN included[i].Discord
  ELSE ResolveDiscordIdNoBreak(id, included, i + 1)

\* client.go:163-172: the first included resource with the member's user id
RECURSIVE ResolveDiscordId(_, _, _)
ResolveDiscordId(id, included, i) ==
  IF i > Len(included) THEN None
  ELSE IF included[i].Id = id THEN included[i].Discord
  ELSE ResolveDiscordId(id, included, i + 1)

\* client.go:174-179
MakePatron(member, included) ==
  [Email |-> member.Email,
   Id |-> member.UserId,
   Tiers |-> ParseTiers(member.Tiers),
   DiscordId |-> ResolveDiscordId(member.UserId, included, 1)]

\* (variant: a member without email is stored like any other)
RECURSIVE MergeMembersKeepEmpty(_, _, _, _)
MergeMembersKeepEmpty(data, members, included, i) ==
  IF i > Len(members) THEN data
  ELSE MergeMembersKeepEmpty(
         Put(data, members[i].Email, MakePatron(members[i], included)),
         members, included, i + 1)

\* client.go:142-180
RECURSIVE MergeMembers(_, _, _, _)
MergeMembers(data, members, included, i) ==
  IF i > Len(members) THEN data
  ELSE IF members[i].Email = "" THEN MergeMembers(data, members, included, i + 1)
  ELSE MergeMembers(Put(data, members[i].Email, MakePatron(members[i], included)),
                    members, included, i + 1)

MergePage(data, page) == MergeMembers(data, page.Data, page.Included, 1)

(* ------------------------- UpdatePledges, grouping -------------------- *)
\* server.go:49-55.  Go iterates a map in no fixed order, so when several
\* patrons carry the same Discord id any of them may be the one left in x.
Orders(S) ==
  { o \in [1..Cardinality(S) -> S] : \A i, j \in DOMAIN o : o[i] = o[j] => i = j }

\* (variant: the entries are filed under the patron's id)
RECURSIVE GroupInOrderByPatronId(_, _, _, _)
GroupInOrderByPatronId(pledges, order, i, x) ==
  IF i > Len(order) THEN x
  ELSE LET pledge == pledges[order[i]] IN
       IF pledge.DiscordId # None
       THEN GroupInOrderByPatronId(pledges, order, i + 1, Put(x, pledge.Id, pledge))
       ELSE GroupInOrderByPatronId(pledges, order, i + 1, x)

\* server.go:51-55, for one order of iteration
RECURSIVE GroupInOrder(_, _, _, _)
GroupInOrder(pledges, order, i, x) ==
  IF i > Len(order) THEN x
  ELSE LET pledge == pledges[order[i]] IN
       IF pledge.DiscordId # None
       THEN GroupInOrder(pledges, order, i + 1, Put(x, The(pledge.DiscordId), pledge))
       ELSE GroupInOrder(pledges, order, i + 1, x)

\* server.go:49-55: the maps x that the loop can leave
GroupByDiscordId(pledges) ==
  { GroupInOrder(pledges, order, 1, EmptyMap) : order \in Orders(DOMAIN pledges) }


(* ------------------------------- state -------------------------------- *)
VARIABLES
  now,                \* time.Now()
  alive,              \* the process is running (FALSE after logger.Fatal)
  Tokens,             \* patreon.Client.Tokens
  db,                 \* the row of patreon_keys for the client id, or None
  issued,             \* token pairs handed out by the authorization endpoint
  pc,                 \* where the scheduler goroutine is
  url,                \* FetchPledges' url
  data,               \* FetchPledges' data: a reference to a map, or NilRef
  req,                \* the page request FetchPage has built, or None
  heap,               \* the map objects, by reference (email -> Patron)
  cpc,                \* where the consumer goroutine of pledgeCh is
  cpledges,           \* UpdatePledges' argument
  pledges,            \* Server.pledges: a reference, or NilRef
  pledgesByDiscordId, \* Server.pledgesByDiscordId: None (nil) or Some(map)
  mu,                 \* Server.mu: [w |-> write-locked, r |-> read locks held]
  rpc,                \* where the request handler is
  loaded,             \* what line 129 of the handler read so far
  reply,              \* what the handler last answered
  cycle,              \* history of the current cycle (see NoCycle)
  lastPublished,      \* history: the snapshot of the last completed UpdatePledges
  lastHandedOff       \* history: the result sent on pledgeCh last, or None

vars == << configTiers, queryErr, patreonClient, now, alive, Tokens, db, issued, pc, url, data, req, heap, cpc,
           cpledges, pledges, pledgesByDiscordId, mu, rpc, loaded, reply,
           cycle, lastPublished, lastHandedOff >>

mainVars == << configTiers, queryErr, patreonClient >>
credVars == << Tokens, db, issued >>
fetchVars == << url, data, req, heap >>
serverVars == << cpc, cpledges, pledges, pledgesByDiscordId, mu, lastPublished,
                lastHandedOff >>
readerVars == << rpc, loaded, reply >>

Refs == 1..NRefs

\* patreon.Tokens
MkTokens(at, rt, exp) == [AccessToken |-> at, RefreshToken |-> rt, ExpiresAt |-> exp]

\* Token strings: the empty string, and the n-th access and refresh token
\* the authorization endpoint handed out (the persisted pair is number 0).
EmptyToken == << "", 0 >>
AccessTokenNo(n) == << "access", n >>
RefreshTokenNo(n) == << "refresh", n >>

\* client.go:32: var tokens Tokens
ZeroTokens == MkTokens(EmptyToken, EmptyToken, ZeroTime)

\* The history of a cycle: the snapshot visible when it started, the map an
\* UpdatePledges was still publishing then (if any), the credential and the
\* row when RefreshCredentials was entered, how RefreshCredentials returned
\* ("none": not called, "run": not yet returned, "ok", "err"), whether the
\* cycle failed or handed a result over, whether RefreshCredentials
\* returned an error in the cycle before, and the pages FetchPledges was
\* given so far, each with the url it was requested at.
NoSnapshot == [byEmail |-> None, byDiscordId |-> None]

NoCycle ==
  [startSnap |-> NoSnapshot, startPending |-> None,
   refresh |-> "none", preTokens |-> None, preDb |-> None,
   failed |-> FALSE, sent |-> FALSE, afterErr |-> FALSE, pages |-> << >>]

\* The snapshot a reader holding the lock would see.
Visible ==
  [byEmail |-> IF pledges = NilRef THEN None ELSE Some(heap[pledges]),
   byDiscordId |-> pledgesByDiscordId]

(* ------------------------------- heap --------------------------------- *)
Live(a, b, c) == {a, b, c} \ {NilRef}

\* (variant: FetchPledges clears and refills one map it keeps)
ReusedRef(live) == CHOOSE r \in Refs : \A s \in Refs : r <= s

\* client.go:135: make(map[string]Patron) is a map no live reference names
FreshRef(live) == CHOOSE r \in Refs \ live : \A s \in Refs \ live : r <= s

\* Maps that no reference names any more are collected.
Collect(h, live) == [r \in Refs |-> IF r \in live THEN h[r] ELSE EmptyMap]

(* ------------------------------- Init --------------------------------- *)
\* client.go:30-56 NewClient: the credential is the persisted row, or the
\* zero Tokens when there is none.
LoadTokens(row) == IF row = None THEN ZeroTokens ELSE The(row)

\* (variant: a missing row is an error like any other)
NewClientNeedsRow(row, err) ==
  IF err # "nil" THEN None ELSE Some(LoadTokens(row))

\* client.go:30-56 NewClient: nil on an error other than pgx.ErrNoRows,
\* else a client with the tokens that were scanned.
NewClient(row, err) ==
  IF err # "nil" /\ err # "ErrNoRows" THEN None ELSE Some(LoadTokens(row))

\* client.go:33: what QueryRow(...).Scan can return for a table with or
\* without the row
ScanErrors(row) == IF row = None THEN {"ErrNoRows", "other"} ELSE {"nil", "other"}

\* (variant: NewServer makes the two maps)
NewServerWithMaps == [pledges |-> NilRef, pledgesByDiscordId |-> Some(EmptyMap)]

\* server.go:23-28 NewServer: the two maps are left nil
NewServer == [pledges |-> NilRef, pledgesByDiscordId |-> None]

Started ==
  /\ now = StartTime
  /\ alive = TRUE
  /\ db \in {None} \cup { Some(MkTokens(AccessTokenNo(0), RefreshTokenNo(0), e)) :
                            e \in InitExpiries }
  /\ queryErr \in ScanErrors(db)
  /\ LET c == NewClient(db, queryErr)
     IN /\ patreonClient = IF c = None THEN None ELSE Some("client")
        /\ Tokens = IF c = None THEN ZeroTokens ELSE The(c)
  /\ issued = 0
  /\ pc = "start"
  /\ url = FirstUrl
  /\ data = NilRef
  /\ req = None
  /\ heap = [r \in Refs |-> EmptyMap]
  /\ cpc = "recv"
  /\ cpledges = NilRef
  /\ pledges = NewServer.pledges
  /\ pledgesByDiscordId = NewServer.pledgesByDiscordId
  /\ mu = [w |-> FALSE, r |-> 0]
  /\ rpc = "idle"
  /\ loaded = << >>
  /\ reply = None
  /\ cycle = NoCycle
  /\ lastPublished = NoSnapshot
  /\ lastHandedOff = None

\* main.go:48-110 with the tier mapping of the inputs
Init ==
  /\ configTiers = Tiers
  /\ Started

\* main.go:48-110 with any of the tier mappings
InitTiers ==
  /\ configTiers \in TierMappings
  /\ Started

(* ------------------------------ clock --------------------------------- *)
Tick ==
  /\ alive
  /\ now < MaxTime
  /\ now' = now + 1
  /\ UNCHANGED << mainVars, alive, credVars, pc, fetchVars, serverVars,
                  readerVars, cycle >>

(* ---------------------- scheduler: fetchPledges ----------------------- *)
\* (variant: the operands of Before are swapped)
ExpiredSwapped(tokens, t) == t < tokens.ExpiresAt

\* main.go:130: patreonClient.Tokens.ExpiresAt.Before(time.Now())
Expired(tokens, t) == tokens.ExpiresAt < t

\* (variant: <= in place of <)
RefreshDueInclusive(tokens, t) == tokens.ExpiresAt - t <= RefreshWindow

\* main.go:138: time.Until(patreonClient.Tokens.ExpiresAt) < time.Hour*24*3
RefreshDue(tokens, t) == tokens.ExpiresAt - t < RefreshWindow

\* main.go:119, 130-136: the cycle starts; logger.Fatal ends the process,
\* and so does the nil dereference of patreonClient.Tokens when NewClient
\* returned nil.
CheckExpired ==
  /\ alive
  /\ pc = "start"
  /\ IF patreonClient = None \/ Expired(Tokens, now)
     THEN /\ alive' = FALSE
          /\ pc' = "exited"
          /\ cycle' = cycle
     ELSE /\ alive' = alive
          /\ pc' = "due"
          /\ cycle' = [cycle EXCEPT !.startSnap = Visible,
                                    !.startPending =
                                       IF cpc = "recv" THEN None
                                       ELSE Some(heap[cpledges])]
  /\ UNCHANGED << now, mainVars, credVars, fetchVars, serverVars, readerVars >>

\* main.go:138-147: RefreshCredentials is entered when the refresh is due.
CheckDue ==
  /\ alive
  /\ pc = "due"
  /\ IF RefreshDue(Tokens, now)
     THEN /\ pc' = "rwait"
          /\ cycle' = [cycle EXCEPT !.refresh = "run",
                                    !.preTokens = Some(Tokens),
                                    !.preDb = Some(db)]
     ELSE /\ pc' = "fetch"
          /\ cycle' = cycle
  /\ UNCHANGED << now, mainVars, alive, credVars, fetchVars, serverVars, readerVars >>

\* client.go:76-78: ratelimiter.Wait(ctx) returns, or the 30 s deadline fires.
RefreshWait ==
  /\ alive
  /\ pc = "rwait"
  /\ \E ok \in BOOLEAN :
       IF ok
       THEN /\ pc' = "rdo"
            /\ cycle' = cycle
       ELSE /\ pc' = "fetch"
            /\ cycle' = [cycle EXCEPT !.refresh = "err"]
  /\ UNCHANGED << now, mainVars, alive, credVars, fetchVars, serverVars, readerVars >>

\* (variant: the access token of the response is not taken over)
RefreshedTokensStaleAccess(body, t) ==
  MkTokens(Tokens.AccessToken, body.RefreshToken, t + body.ExpiresIn)

\* client.go:113-117: body is the decoded RefreshResponse
RefreshedTokens(body, t) ==
  MkTokens(body.AccessToken, body.RefreshToken, t + body.ExpiresIn)

\* The n-th response of the authorization endpoint.
RefreshResponse(n, expiresIn) ==
  [AccessToken |-> AccessTokenNo(n), RefreshToken |-> RefreshTokenNo(n),
   ExpiresIn |-> expiresIn]

\* client.go:80-117: the exchange fails (transport, status, decode) and the
\* call returns an error, or the response is decoded and c.Tokens assigned.
RefreshDo ==
  /\ alive
  /\ pc = "rdo"
  /\ \E ok \in BOOLEAN :
       IF ok /\ issued < MaxIssued
       THEN \E expiresIn \in ExpiresIns :
              /\ Tokens' = RefreshedTokens(RefreshResponse(issued + 1, expiresIn), now)
              /\ issued' = issued + 1
              /\ pc' = "rpersist"
              /\ cycle' = cycle
       ELSE /\ pc' = "fetch"
            /\ cycle' = [cycle EXCEPT !.refresh = "err"]
            /\ UNCHANGED << Tokens, issued >>
  /\ UNCHANGED << now, mainVars, alive, db, fetchVars, serverVars, readerVars >>

\* client.go:120: UPDATE patreon_keys ... WHERE client_id = $4 changes the
\* row when there is one.
Persisted(row, tokens) == IF row = None THEN None ELSE Some(tokens)

\* client.go:119-125
RefreshPersist ==
  /\ alive
  /\ pc = "rpersist"
  /\ \E ok \in BOOLEAN :
       IF ok
       THEN /\ db' = Persisted(db, Tokens)
            /\ cycle' = [cycle EXCEPT !.refresh = "ok"]
       ELSE /\ db' = db
            /\ cycle' = [cycle EXCEPT !.refresh = "err"]
  /\ pc' = "fetch"
  /\ UNCHANGED << now, mainVars, alive, Tokens, issued, fetchVars, serverVars, readerVars >>


(* ---------------------- scheduler: FetchPledges ----------------------- *)
\* (variant: the error is logged and what was merged so far is sent)
FetchFailedStillSends ==
  /\ pc' = "send"
  /\ req' = None
  /\ url' = FirstUrl
  /\ cycle' = [cycle EXCEPT !.failed = TRUE]
  /\ UNCHANGED << data, heap >>

\* (variant: the loop of startPatreonLoop is left on an error)
FetchFailedLeavesLoop ==
  /\ pc' = "exited"
  /\ data' = NilRef
  /\ req' = None
  /\ heap' = Collect(heap, Live(NilRef, cpledges, pledges))
  /\ url' = FirstUrl
  /\ cycle' = [cycle EXCEPT !.failed = TRUE]

\* client.go:136-140 and main.go:159-163: a page fetch failed; FetchPledges
\* returns nil and the error, fetchPledges logs it and returns.
FetchFailed ==
  /\ pc' = "sleep"
  /\ data' = NilRef
  /\ req' = None
  /\ heap' = Collect(heap, Live(NilRef, cpledges, pledges))
  /\ url' = FirstUrl
  /\ cycle' = [cycle EXCEPT !.failed = TRUE]

\* main.go:156-159, client.go:128-135
FetchPledgesBegin ==
  /\ alive
  /\ pc = "fetch"
  /\ url' = FirstUrl
  /\ data' = FreshRef(Live(data, cpledges, pledges))
  /\ heap' = [heap EXCEPT ![data'] = EmptyMap]
  /\ pc' = "page"
  /\ UNCHANGED << now, mainVars, alive, credVars, req, serverVars, readerVars, cycle >>

\* client.go:206-212
PageRequest(tokens, u) == [Authorization |-> tokens.AccessToken, url |-> u]

\* (variant: the request is sent without a slot of the rate limiter)
FetchPageCheckNoWait ==
  /\ alive
  /\ pc = "page"
  /\ IF Expired(Tokens, now)
     THEN FetchFailed
     ELSE /\ req' = Some(PageRequest(Tokens, url))
          /\ pc' = "do"
          /\ UNCHANGED << url, data, heap, cycle >>
  /\ UNCHANGED << now, mainVars, alive, credVars, serverVars, readerVars >>

\* client.go:199-212: the expiry precondition, then the request is built.
FetchPageCheck ==
  /\ alive
  /\ pc = "page"
  /\ IF Expired(Tokens, now)
     THEN FetchFailed
     ELSE /\ req' = Some(PageRequest(Tokens, url))
          /\ pc' = "wait"
          /\ UNCHANGED << url, data, heap, cycle >>
  /\ UNCHANGED << now, mainVars, alive, credVars, serverVars, readerVars >>

\* client.go:214-216: ratelimiter.Wait(ctx) returns, or a deadline fires.
FetchPageWait ==
  /\ alive
  /\ pc = "wait"
  /\ \E ok \in BOOLEAN :
       IF ok
       THEN /\ pc' = "do"
            /\ UNCHANGED << url, data, req, heap, cycle >>
       ELSE FetchFailed
  /\ UNCHANGED << now, mainVars, alive, credVars, serverVars, readerVars >>

\* (variant: the loop is left after the first page)
HasNextNever(res) == FALSE

\* client.go:182-184: res.Links != nil && res.Links.Next != nil
HasNext(res) == res.Next # None

\* client.go:218-252 and 142-187: the request is sent; it fails (transport,
\* status, decode, deadline), or the page is merged into data and the next
\* link followed.
FetchPageDo ==
  /\ alive
  /\ pc = "do"
  /\ \E ok \in BOOLEAN :
       IF ok
       THEN \E res \in Responses(The(req).url) :
              /\ heap' = [heap EXCEPT ![data] = MergePage(heap[data], res)]
              /\ req' = None
              /\ IF HasNext(res)
                 THEN /\ pc' = "page"
                      /\ url' = The(res.Next)
                 ELSE /\ pc' = "send"
                      /\ url' = FirstUrl
              /\ cycle' = [cycle EXCEPT !.pages =
                             Append(@, [url |-> The(req).url, res |-> res])]
              /\ data' = data
       ELSE FetchFailed
  /\ UNCHANGED << now, mainVars, alive, credVars, serverVars, readerVars >>

\* (variant: the next cycle starts right after the send, without the delay
\* and with what the cycle left behind)
HandoffThenNextCycle ==
  /\ alive
  /\ pc = "send"
  /\ cpc = "recv"
  /\ cpledges' = data
  /\ cpc' = "lock"
  /\ pc' = "start"
  /\ cycle' = [cycle EXCEPT !.sent = TRUE]
  /\ lastHandedOff' = Some(heap[data])
  /\ UNCHANGED << now, mainVars, alive, credVars, url, data, req, heap, pledges,
                  pledgesByDiscordId, mu, lastPublished, readerVars >>

\* main.go:165 and 107: pledgeCh is unbuffered, so the send completes when
\* the consumer goroutine receives.
Handoff ==
  /\ alive
  /\ pc = "send"
  /\ cpc = "recv"
  /\ cpledges' = data
  /\ cpc' = "lock"
  /\ data' = NilRef
  /\ pc' = "sleep"
  /\ cycle' = [cycle EXCEPT !.sent = TRUE]
  /\ lastHandedOff' = Some(heap[data])
  /\ UNCHANGED << now, mainVars, alive, credVars, url, req, heap, pledges,
                  pledgesByDiscordId, mu, lastPublished, readerVars >>

\* main.go:120: time.Sleep(time.Minute), then the next cycle.
Sleep ==
  /\ alive
  /\ pc = "sleep"
  /\ pc' = "start"
  /\ cycle' = [NoCycle EXCEPT !.afterErr = (cycle.refresh = "err")]
  /\ UNCHANGED << now, mainVars, alive, credVars, fetchVars, serverVars, readerVars >>

(* ---------------------- consumer: UpdatePledges ----------------------- *)
\* server.go:43
UpdateLock ==
  /\ alive
  /\ cpc = "lock"
  /\ ~mu.w /\ mu.r = 0
  /\ mu' = [mu EXCEPT !.w = TRUE]
  /\ cpc' = "assign"
  /\ UNCHANGED << now, mainVars, alive, credVars, pc, fetchVars, cpledges, pledges,
                  pledgesByDiscordId, lastPublished,
                  lastHandedOff, readerVars, cycle >>

\* (variant: the entries of the new map are added to those already held)
UpdateAssignMerging ==
  /\ alive
  /\ cpc = "assign"
  /\ pledges' = cpledges
  /\ LET old == IF pledges = NilRef THEN EmptyMap ELSE heap[pledges]
         new == heap[cpledges]
         merged == [e \in (DOMAIN old) \cup (DOMAIN new) |->
                      IF e \in DOMAIN new THEN new[e] ELSE old[e]]
     IN heap' = Collect([heap EXCEPT ![cpledges] = merged],
                        Live(data, cpledges, pledges'))
  /\ cpc' = "group"
  /\ UNCHANGED << now, mainVars, alive, credVars, pc, url, data, req, cpledges,
                  pledgesByDiscordId, mu, lastPublished, lastHandedOff,
                  readerVars, cycle >>

\* server.go:46
UpdateAssign ==
  /\ alive
  /\ cpc = "assign"
  /\ pledges' = cpledges
  /\ heap' = Collect(heap, Live(data, cpledges, pledges'))
  /\ cpc' = "group"
  /\ UNCHANGED << now, mainVars, alive, credVars, pc, url, data, req, cpledges,
                  pledgesByDiscordId, mu, lastPublished,
                  lastHandedOff, readerVars, cycle >>

\* server.go:48-57
UpdateGroup ==
  /\ alive
  /\ cpc = "group"
  /\ \E x \in GroupByDiscordId(heap[cpledges]) :
       pledgesByDiscordId' = Some(x)
  /\ cpc' = "unlock"
  /\ UNCHANGED << now, mainVars, alive, credVars, pc, fetchVars, cpledges, pledges, mu,
                  lastPublished,
                  lastHandedOff, readerVars, cycle >>

\* server.go:44: the deferred Unlock; UpdatePledges returns.
UpdateUnlock ==
  /\ alive
  /\ cpc = "unlock"
  /\ mu' = [mu EXCEPT !.w = FALSE]
  /\ cpc' = "recv"
  /\ cpledges' = NilRef
  /\ lastPublished' = Visible
  /\ lastHandedOff' = lastHandedOff
  /\ UNCHANGED << now, mainVars, alive, credVars, pc, fetchVars, pledges,
                  pledgesByDiscordId, readerVars, cycle >>


(* ------------------- request handler: handleCommand ------------------- *)
\* the option values of the lookup requests
LookupEmails == {"a@x", "b@x"}
LookupUsers == {7, 8}

\* config.go:121-128: a lookup command arrives.
LookupBegin ==
  /\ alive
  /\ rpc = "idle"
  /\ rpc' = "l129p"
  /\ UNCHANGED << now, mainVars, alive, credVars, pc, fetchVars, serverVars, loaded,
                  reply, cycle >>

\* config.go:129: zap.Bool("pledgesLoaded", s.pledges != nil), read without
\* the lock.
LoadedLogPledges ==
  /\ alive
  /\ rpc = "l129p"
  /\ loaded' = << pledges # NilRef >>
  /\ rpc' = "l129d"
  /\ UNCHANGED << now, mainVars, alive, credVars, pc, fetchVars, serverVars, reply, cycle >>

\* config.go:129: zap.Bool("discordIdMappingLoaded", s.pledgesByDiscordId != nil)
LoadedLogDiscord ==
  /\ alive
  /\ rpc = "l129d"
  /\ loaded' = Append(loaded, pledgesByDiscordId # None)
  /\ rpc' = "l130p"
  /\ UNCHANGED << now, mainVars, alive, credVars, pc, fetchVars, serverVars, reply, cycle >>

\* config.go:130: s.pledges != nil || ..., read without the lock.
HasInitialDataPledges ==
  /\ alive
  /\ rpc = "l130p"
  /\ loaded' = << >>
  /\ rpc' = IF pledges # NilRef THEN "rlock" ELSE "l130d"
  /\ UNCHANGED << now, mainVars, alive, credVars, pc, fetchVars, serverVars, reply, cycle >>

\* config.go:130-136: ... || s.pledgesByDiscordId != nil
HasInitialDataDiscord ==
  /\ alive
  /\ rpc = "l130d"
  /\ IF pledgesByDiscordId # None
     THEN /\ rpc' = "rlock"
          /\ reply' = reply
     ELSE /\ rpc' = "ret"
          /\ reply' = Some([kind |-> "not loaded"])
  /\ UNCHANGED << now, mainVars, alive, credVars, pc, fetchVars, serverVars, loaded, cycle >>

\* config.go:161 and 185: s.mu.RLock()
LookupRLock ==
  /\ alive
  /\ rpc = "rlock"
  /\ ~mu.w
  /\ mu' = [mu EXCEPT !.r = @ + 1]
  /\ rpc' = "read"
  /\ UNCHANGED << now, mainVars, alive, credVars, pc, fetchVars, cpc, cpledges, pledges,
                  pledgesByDiscordId, lastPublished,
                  lastHandedOff, loaded, reply, cycle >>

\* config.go:162 and 186: reading a map (a nil map has no entries)
MapGet(m, k) == IF m = None THEN None
                ELSE IF k \in DOMAIN The(m) THEN Some(The(m)[k]) ELSE None

Answer(arg, key, found) ==
  [kind |-> IF found = None THEN "not found" ELSE "found",
   arg |-> arg, key |-> key, patron |-> found]

\* config.go:161-175: lookup by Discord user id, under the read lock
LookupUser ==
  /\ alive
  /\ rpc = "read"
  /\ \E userId \in LookupUsers :
       reply' = Some(Answer("user", userId, MapGet(pledgesByDiscordId, userId)))
  /\ mu' = [mu EXCEPT !.r = @ - 1]
  /\ rpc' = "ret"
  /\ UNCHANGED << now, mainVars, alive, credVars, pc, fetchVars, cpc, cpledges, pledges,
                  pledgesByDiscordId, lastPublished,
                  lastHandedOff, loaded, cycle >>

\* config.go:176-199: lookup by email, under the read lock
LookupEmail ==
  /\ alive
  /\ rpc = "read"
  /\ \E email \in LookupEmails :
       reply' = Some(Answer("email", email, MapGet(Visible.byEmail, email)))
  /\ mu' = [mu EXCEPT !.r = @ - 1]
  /\ rpc' = "ret"
  /\ UNCHANGED << now, mainVars, alive, credVars, pc, fetchVars, cpc, cpledges, pledges,
                  pledgesByDiscordId, lastPublished,
                  lastHandedOff, loaded, cycle >>

\* config.go:132, 165, 188, 224: the response is returned.
LookupReturn ==
  /\ alive
  /\ rpc = "ret"
  /\ reply' = None
  /\ rpc' = "idle"
  /\ UNCHANGED << now, mainVars, alive, credVars, pc, fetchVars, serverVars, loaded, cycle >>

(* --------------------------- specification ---------------------------- *)
Scheduler ==
  \/ CheckExpired \/ CheckDue
  \/ RefreshWait \/ RefreshDo \/ RefreshPersist
  \/ FetchPledgesBegin \/ FetchPageCheck \/ FetchPageWait \/ FetchPageDo
  \/ Handoff \/ Sleep

Consumer == UpdateLock \/ UpdateAssign \/ UpdateGroup \/ UpdateUnlock

Handler ==
  \/ LookupBegin \/ LoadedLogPledges \/ LoadedLogDiscord
  \/ HasInitialDataPledges \/ HasInitialDataDiscord
  \/ LookupRLock \/ LookupUser \/ LookupEmail \/ LookupReturn

\* The scheduler, the consumer and the clock; no lookup request arrives.
Next == Tick \/ Scheduler \/ Consumer

Spec == Init /\ [][Next]_vars

\* The scheduler, the consumer and a request handler, within one day of the
\* clock: the credential is neither due for a refresh nor does it expire.
Fetching ==
  \/ CheckExpired \/ CheckDue
  \/ FetchPledgesBegin \/ FetchPageCheck \/ FetchPageWait \/ FetchPageDo
  \/ Handoff \/ Sleep

NextLookup == Fetching \/ Consumer \/ Handler

SpecLookup == Init /\ [][NextLookup]_vars

\* The scheduler and the consumer under each of the tier mappings, within
\* one day of the clock.
NextTiers == Fetching \/ Consumer

SpecTiers == InitTiers /\ [][NextTiers]_vars

TypeOK ==
  /\ now \in StartTime..MaxTime
  /\ alive \in BOOLEAN
  /\ issued \in 0..MaxIssued
  /\ pc \in {"start", "due", "rwait", "rdo", "rpersist", "fetch", "page",
             "wait", "do", "send", "sleep", "exited"}
  /\ url \in Urls
  /\ data \in Refs \cup {NilRef}
  /\ cpc \in {"recv", "lock", "assign", "group", "unlock"}
  /\ pledges \in Refs \cup {NilRef}
  /\ mu.w \in BOOLEAN /\ mu.r \in 0..1
  /\ ~(mu.w /\ mu.r > 0)
  /\ rpc \in {"idle", "l129p", "l129d", "l130p", "l130d", "rlock", "read", "ret"}


(* ------------------------------- claims ------------------------------- *)

\* C1: the loaded-check of the handler never sees a half-updated snapshot:
\* it never reads the new byEmail map (s.pledges set) together with the
\* previous, nil byDiscordId map.
C1_LoadedCheckNotTorn ==
  Len(loaded) = 2 => ~(loaded[1] /\ ~loaded[2])

\* C2 (as stated): after a cycle in which a page fetch failed, FetchPledges
\* returned no result, nothing was sent for publication, and the visible
\* maps are what they were when the cycle started.
C2_FailedCycleSnapshotUntouched ==
  cycle.failed =>
    /\ data = NilRef
    /\ ~cycle.sent
    /\ pc = "sleep"
    /\ Visible = cycle.startSnap

\* C2 (amended): after a cycle in which a page fetch failed, FetchPledges
\* returned no result and nothing was sent for publication; the visible maps
\* are what they were when the cycle started, or they are those of the map
\* that UpdatePledges was still publishing for an earlier cycle when this
\* cycle started.
C2_FailedCyclePublishesNothing ==
  cycle.failed =>
    /\ data = NilRef
    /\ ~cycle.sent
    /\ pc = "sleep"
    /\ \/ Visible = cycle.startSnap
       \/ /\ cycle.startPending # None
          /\ Visible.byEmail \in {cycle.startSnap.byEmail, cycle.startPending}
          /\ \/ Visible.byDiscordId = cycle.startSnap.byDiscordId
             \/ \E x \in GroupByDiscordId(The(cycle.startPending)) :
                  Visible.byDiscordId = Some(x)

\* C2 witness: a cycle failed after an earlier cycle's snapshot was
\* published, with no UpdatePledges under way when it started.
C2_Witness ==
  /\ cycle.failed
  /\ cycle.startPending = None
  /\ cycle.startSnap.byEmail # None
  /\ pledgesByDiscordId # None


\* C3 (as stated): a cycle that starts with now >= expiresAt raises the
\* fatal condition and the process stops.
C3_FatalAtExpiry ==
  [][(pc = "start" /\ pc' # "start" /\ now >= Tokens.ExpiresAt)
       => (~alive' /\ pc' = "exited")]_vars

\* C3 (amended): a cycle that starts with now > expiresAt raises the fatal
\* condition; it makes no refresh attempt and no membership-listing request,
\* and the process stops: nothing happens afterwards.
C3_FatalPastExpiry ==
  /\ [](~alive => /\ pc = "exited"
                  /\ cycle.refresh = "none"
                  /\ req = None /\ data = NilRef
                  /\ ~cycle.sent)
  /\ [][/\ (pc = "start" /\ pc' # "start" /\ now > Tokens.ExpiresAt)
             => (~alive' /\ pc' = "exited")
        /\ ~alive => UNCHANGED vars]_vars

\* C3 witness: the process stopped on a persisted credential that ran out.
C3_Witness ==
  /\ ~alive
  /\ db # None
  /\ now > Tokens.ExpiresAt

\* C4: when a page request is sent (httpClient.Do), the credential is not
\* past its expiry.  (The claim's now < expiresAt, read as now <= expiresAt,
\* which is what FetchPage's own check accepts.)
C4_NoRequestPastExpiry ==
  [][(pc = "do" /\ pc' # "do") => now <= Tokens.ExpiresAt]_vars

\* C5: when RefreshCredentials returned an error the persisted row is what
\* it was, and the page requests of the cycle carry the prior access token.
C5_FailedRefreshUsesPriorToken ==
  cycle.refresh = "err" =>
    /\ db = The(cycle.preDb)
    /\ req # None => The(req).Authorization = The(cycle.preTokens).AccessToken

\* C6: when RefreshCredentials returned an error the in-memory credential
\* is what it was before the call.
C6_FailedRefreshKeepsTokens ==
  cycle.refresh = "err" => Tokens = The(cycle.preTokens)

\* C7 (as stated): in a cycle that starts with now < expiresAt a refresh is
\* attempted if and only if now >= expiresAt - 3 days.
C7_RefreshIffAtLeastWindow ==
  [][(pc = "due" /\ pc' # "due" /\ now < Tokens.ExpiresAt)
       => ((pc' = "rwait") <=> (now >= Tokens.ExpiresAt - RefreshWindow))]_vars

\* C7 (amended): in a cycle that passed the expiry check a refresh is
\* attempted if and only if expiresAt - now < 3 days, and then exactly once:
\* RefreshCredentials is entered only in a cycle that has not called it yet.
\* This holds in every cycle, so also in the cycle after a failed refresh.
C7_RefreshIffLessThanWindow ==
  [][/\ (pc = "due" /\ pc' # "due")
          => ((pc' = "rwait") <=> (Tokens.ExpiresAt - now < RefreshWindow))
     /\ (pc' = "rwait" /\ pc # "rwait")
          => (cycle.refresh = "none" /\ cycle'.refresh = "run")
     /\ (cycle.refresh # "none" /\ cycle'.refresh # cycle.refresh)
          => \/ (cycle.refresh = "run" /\ cycle'.refresh \in {"ok", "err"})
             \/ (cycle'.refresh = "none" /\ pc' = "start")]_vars

\* C7 witness: a refresh is attempted in the cycle after one whose refresh
\* failed.
C7_Witness ==
  /\ cycle.afterErr
  /\ pc = "rwait"
  /\ now < Tokens.ExpiresAt

\* C8: RefreshCredentials has returned before FetchPledges is called, and
\* after a successful refresh every page request of the cycle carries the
\* access token of the refresh response, not the one held before.
C8_RequestsCarryNewToken ==
  /\ (pc \in {"fetch", "page", "wait", "do", "send"} \/ req # None)
        => cycle.refresh # "run"
  /\ (req # None /\ cycle.refresh = "ok")
        => /\ The(req).Authorization = AccessTokenNo(issued)
           /\ The(req).Authorization # The(cycle.preTokens).AccessToken

\* C8 witness: the request for the second page after a successful refresh.
C8_Witness ==
  /\ req # None
  /\ cycle.refresh = "ok"
  /\ The(req).url # FirstUrl

\* C9: in a published snapshot (at any time but between the two assignments
\* of UpdatePledges, which hold the write lock) every entry byDiscordId[d] is a patron with
\* discordId d that byEmail holds under its email with the same fields, and
\* every patron of byEmail with a discordId has it as a key of byDiscordId.
C9_DiscordViewIsProjection ==
  (cpc # "group" /\ pledges # NilRef) =>
    LET byEmail == heap[pledges]
        byDiscordId == The(pledgesByDiscordId)
    IN /\ pledgesByDiscordId # None
       /\ \A d \in DOMAIN byDiscordId :
            /\ byDiscordId[d].DiscordId = Some(d)
            /\ byDiscordId[d].Email \in DOMAIN byEmail
            /\ byEmail[byDiscordId[d].Email] = byDiscordId[d]
       /\ \A e \in DOMAIN byEmail :
            \A d \in byEmail[e].DiscordId : d \in DOMAIN byDiscordId

\* C9 witness: a published snapshot in which two patrons carry the same
\* Discord id.
C9_Witness ==
  /\ cpc = "recv"
  /\ pledges # NilRef
  /\ \E e1, e2 \in DOMAIN heap[pledges] :
       /\ e1 # e2
       /\ heap[pledges][e1].DiscordId = heap[pledges][e2].DiscordId
       /\ heap[pledges][e1].DiscordId # None

\* C10: the map FetchPledges is accumulating is not the published one nor
\* the one being published; a published map is not modified; and a lookup
\* answers from the snapshot of the last completed UpdatePledges ("not
\* loaded" only when none has completed).
C10_LookupSeesLastPublished ==
  /\ [](data # NilRef => (data # pledges /\ data # cpledges))
  /\ [][/\ (pledges # NilRef /\ pledges' = pledges)
             => heap'[pledges] = heap[pledges]
        /\ (rpc = "read" /\ rpc' = "ret")
             => LET r == The(reply')
                    m == IF r.arg = "email" THEN lastPublished.byEmail
                         ELSE lastPublished.byDiscordId
                IN r.patron = MapGet(m, r.key)
        /\ (rpc = "l130d" /\ rpc' = "ret") => lastPublished = NoSnapshot]_vars

\* C10 witness: a lookup found a patron while FetchPledges held merged
\* entries of a cycle in progress.
C10_Witness ==
  /\ reply # None
  /\ The(reply).kind = "found"
  /\ pc \in {"page", "wait", "do"}
  /\ data # NilRef
  /\ heap[data] # EmptyMap
  /\ heap[data] # heap[pledges]


\* C11: the pages FetchPledges is given form a chain: the first was requested
\* at the first-page url and each further one at the next link of the page
\* before it, which is never the first-page url again; FetchPledges goes on
\* while the last page carried a next link and completes at the first page
\* without one, so after n fetches for a sequence of n pages.
C11_PaginationFollowsLinks ==
  LET pages == cycle.pages
      n == Len(pages)
  IN /\ \A i \in 1..n :
          /\ pages[i].url = IF i = 1 THEN FirstUrl ELSE The(pages[i - 1].res.Next)
          /\ i > 1 => pages[i].url # FirstUrl
          /\ i < n => pages[i].res.Next # None
     /\ pc = "send" => (n >= 1 /\ pages[n].res.Next = None)
     /\ (pc \in {"page", "wait", "do"})
          => /\ n >= 1 => pages[n].res.Next # None
             /\ url = IF n = 0 THEN FirstUrl ELSE The(pages[n].res.Next)

\* C11 witness: FetchPledges completed after two fetches of a two-page
\* sequence.
C11_Witness ==
  /\ pc = "send"
  /\ Len(cycle.pages) = 2
  /\ cycle.pages[2].url # FirstUrl


\* C12: every key of the map FetchPledges builds, of the map handed over
\* and of the published byEmail is a non-empty email and is the email of the
\* patron stored under it; and the keys of the map FetchPledges builds are
\* exactly the distinct non-empty emails of the members on the pages of the
\* cycle, so the map has as many entries as there are such emails.
C12_NoEntryWithoutEmail ==
  LET pages == cycle.pages
      emails == UNION { { pages[i].res.Data[j].Email :
                            j \in 1..Len(pages[i].res.Data) } :
                        i \in 1..Len(pages) }
  IN /\ \A r \in Live(data, cpledges, pledges) :
          \A e \in DOMAIN heap[r] : e # "" /\ heap[r][e].Email = e
     /\ data # NilRef =>
          /\ DOMAIN heap[data] = emails \ {""}
          /\ Cardinality(DOMAIN heap[data]) = Cardinality(emails \ {""})

\* C12 witness: FetchPledges completed on pages with six members, one of
\* them without email and three with the same email, and returns three
\* entries.
C12_Witness ==
  /\ pc = "send"
  /\ \E i \in 1..Len(cycle.pages) :
       \E j \in 1..Len(cycle.pages[i].res.Data) :
         cycle.pages[i].res.Data[j].Email = ""
  /\ Cardinality(DOMAIN heap[data]) = 3


\* C13: under every tier mapping, each tier id in the tier list of a patron
\* that FetchPledges holds, hands over or that is published is a key of the
\* mapping; and when a page is merged, every member of the page with an
\* email is in the map afterwards, whatever its tiers, and the tier list
\* stored under an email is that of the last member of the page with this
\* email: its entitled tier ids that are keys of the mapping, in their order.
C13_UnknownTiersDropped ==
  /\ [](\A r \in Live(data, cpledges, pledges) :
          \A e \in DOMAIN heap[r] :
            \A k \in 1..Len(heap[r][e].Tiers) :
              heap[r][e].Tiers[k] \in DOMAIN configTiers)
  /\ [][(pc = "do" /\ Len(cycle'.pages) > Len(cycle.pages)) =>
          LET members == cycle'.pages[Len(cycle'.pages)].res.Data
              map == heap'[data]
          IN \A j \in 1..Len(members) :
               LET member == members[j]
                   last == \A k \in (j + 1)..Len(members) :
                             members[k].Email # member.Email
                   known == { k \in 1..Len(member.Tiers) :
                                member.Tiers[k] \in DOMAIN configTiers }
                   kept == map[member.Email].Tiers
               IN member.Email # "" =>
                    /\ member.Email \in DOMAIN map
                    /\ last =>
                         /\ Len(kept) = Cardinality(known)
                         /\ \A a \in 1..Len(kept) :
                              \E k \in known :
                                /\ kept[a] = member.Tiers[k]
                                /\ Cardinality({ b \in known : b < k }) = a - 1]_vars

\* C13 witness: under a mapping without tier 99, FetchPledges completed with
\* the member entitled to tiers 10 and 99 stored with tier 10 only, and the
\* member entitled to tiers 99 and 10 as well.
C13_Witness ==
  /\ pc = "send"
  /\ 99 \notin DOMAIN configTiers
  /\ 10 \in DOMAIN configTiers
  /\ "a@x" \in DOMAIN heap[data]
  /\ heap[data]["a@x"].Tiers = << 10 >>
  /\ "c@x" \in DOMAIN heap[data]


\* C14: a cycle starts only out of the delay that follows a finished cycle:
\* one that handed its result over or failed, that holds no map and no
\* request any more and whose refresh has returned; the delay is entered
\* only from the hand-off or from a failed page fetch; and at any time
\* either a refresh is in progress, or an aggregation, or neither.
C14_CyclesNeverOverlap ==
  /\ [](/\ cycle.refresh = "run" <=> pc \in {"rwait", "rdo", "rpersist"}
        /\ data # NilRef <=> pc \in {"page", "wait", "do", "send"}
        /\ req # None => pc \in {"wait", "do"}
        /\ pc \in {"start", "due"} =>
             (cycle.refresh = "none" /\ cycle.pages = << >>
              /\ ~cycle.sent /\ ~cycle.failed))
  /\ [][/\ (pc' = "start" /\ pc # "start")
             => /\ pc = "sleep"
                /\ cycle.sent \/ cycle.failed
                /\ cycle.refresh # "run" /\ data = NilRef /\ req = None
        /\ (pc' = "sleep" /\ pc # "sleep")
             => \/ pc = "send" /\ cycle'.sent /\ cpledges' = data
                \/ pc \in {"page", "wait", "do"} /\ cycle'.failed]_vars

\* C14 witness: a cycle is under way while UpdatePledges has not yet taken
\* the lock for the result the cycle before handed over.
C14_Witness ==
  /\ pc = "due"
  /\ cpc = "lock"
  /\ heap[cpledges] # EmptyMap


\* C15: once FetchPledges has returned a result the cycle is at the send
\* with that result, and the send completes without waiting: whenever the
\* scheduler is at the send, the consumer goroutine is at the receive (it is
\* not inside UpdatePledges, waiting for the write lock that a lookup's
\* read lock holds back, or publishing).
C15_HandoffNeverWaits ==
  /\ pc = "send" => (data # NilRef /\ ~cycle.failed)
  /\ pc = "send" => cpc = "recv"


\* C16: while a cycle runs in which RefreshCredentials returned an error or
\* a page fetch failed (an error or a deadline), and after it, the process
\* is running; after a failed page fetch the scheduler is in the delay and
\* the step out of the delay is enabled; and the step out of the delay
\* starts a new cycle of the running process, whatever the cycle before was.
C16_ErrorsContained ==
  /\ []((cycle.failed \/ cycle.refresh = "err") => (alive /\ pc # "exited"))
  /\ [](cycle.failed => (pc = "sleep" /\ ENABLED Sleep))
  /\ []((cycle.refresh = "err" /\ ~cycle.failed /\ ~cycle.sent)
          => pc \in {"fetch", "page", "wait", "do", "send"})
  /\ [][(pc = "sleep" /\ pc' # "sleep")
          => (alive' /\ pc' = "start" /\ cycle'.refresh = "none"
              /\ ~cycle'.failed /\ ~cycle'.sent)]_vars

\* C16 witness: the cycle after one whose refresh failed handed its result
\* over, and UpdatePledges has published it.
C16_Witness ==
  /\ cycle.afterErr
  /\ cycle.sent
  /\ cpc = "recv"
  /\ pledges # NilRef


\* C17: the loaded-check (s.pledges != nil || s.pledgesByDiscordId != nil)
\* is false as long as no UpdatePledges has begun, is true once an
\* UpdatePledges has completed, also when the map it published has no
\* entries, and once true it stays true; the handler answers "not loaded"
\* only while no UpdatePledges has completed and goes on to the lookup only
\* when one has completed or the first one holds the write lock.
C17_HasDataIffPublished ==
  /\ []((lastPublished = NoSnapshot /\ cpc \in {"recv", "lock"})
          => ~(pledges # NilRef \/ pledgesByDiscordId # None))
  /\ [](lastPublished # NoSnapshot
          => (pledges # NilRef \/ pledgesByDiscordId # None))
  /\ [][/\ (pledges # NilRef \/ pledgesByDiscordId # None)
             => (pledges' # NilRef \/ pledgesByDiscordId' # None)
        /\ (rpc \in {"l130p", "l130d"} /\ rpc' = "rlock")
             => (lastPublished # NoSnapshot \/ cpc \in {"group", "unlock"})
        /\ (rpc \in {"l130p", "l130d"} /\ rpc' = "ret")
             => lastPublished = NoSnapshot]_vars

\* C17 witness: the handler passed the loaded-check in a later cycle, after
\* UpdatePledges published a map without entries.
C17_Witness ==
  /\ rpc = "rlock"
  /\ lastPublished = [byEmail |-> Some(EmptyMap), byDiscordId |-> Some(EmptyMap)]
  /\ pledges # NilRef
  /\ heap[pledges] = EmptyMap
  /\ ~cycle.sent


\* C18: results are handed over one at a time, each the map FetchPledges
\* just returned and only when UpdatePledges has returned for the one
\* before; byEmail changes only in UpdatePledges, to the result handed over
\* last, with exactly its entries; so whenever no UpdatePledges is under way
\* the visible snapshot is the result handed over last (never an earlier
\* one), and a lookup by email finds a patron exactly when the visible
\* byEmail has the email.
C18_PublicationReplacesInOrder ==
  /\ [](cpc = "recv" => (Visible.byEmail = lastHandedOff /\ lastPublished = Visible))
  /\ [](cpc # "recv" => lastHandedOff = Some(heap[cpledges]))
  /\ [][/\ lastHandedOff' # lastHandedOff
             => (pc = "send" /\ cpc = "recv" /\ lastHandedOff' = Some(heap[data]))
        /\ pledges' # pledges
             => (cpc = "assign" /\ pledges' = cpledges
                 /\ Some(heap'[pledges']) = lastHandedOff)
        /\ (rpc = "read" /\ rpc' = "ret" /\ The(reply').arg = "email")
             => ((The(reply').kind = "found")
                   <=> (The(reply').key \in DOMAIN heap[pledges]))]_vars

\* C18 witness: UpdatePledges is about to return having replaced a snapshot
\* that held a@x by a result that does not.
C18_Witness ==
  /\ cpc = "unlock"
  /\ lastPublished.byEmail # None
  /\ "a@x" \in DOMAIN The(lastPublished.byEmail)
  /\ "a@x" \notin DOMAIN heap[pledges]


C20_SlotBeforeEveryRequest ==
  [][/\ (pc' = "do" /\ pc # "do") => pc = "wait"
     /\ (pc' = "rdo" /\ pc # "rdo") => pc = "rwait"
     /\ Len(cycle'.pages) > Len(cycle.pages) => pc = "do"
     /\ issued' # issued => pc = "rdo"
     /\ (pc = "wait" /\ pc' # "wait" /\ pc' # "do")
          => (pc' = "sleep" /\ cycle'.failed /\ cycle'.pages = cycle.pages
              /\ req' = None /\ data' = NilRef)
     /\ (pc = "rwait" /\ pc' # "rwait" /\ pc' # "rdo")
          => (pc' = "fetch" /\ cycle'.refresh = "err"
              /\ Tokens' = Tokens /\ db' = db /\ issued' = issued)]_vars

\* C20 witness: the first page request of a cycle is about to be sent after
\* the refresh request of the same cycle went through.
C20_Witness ==
  /\ pc = "do"
  /\ cycle.refresh = "ok"
  /\ The(req).url = FirstUrl
  /\ issued > 0


\* C21: when a page is merged, the patron stored under an email carries the
\* user id of the last member of the page with this email, and its discordId
\* is resolved from the included resources of that page alone: unset when
\* none of them has the user id, else what the first of them with the user
\* id carries (unset when it carries none, whatever later ones carry).
C21_DiscordIdFromFirstIncluded ==
  [][(pc = "do" /\ Len(cycle'.pages) > Len(cycle.pages)) =>
      LET page == cycle'.pages[Len(cycle'.pages)].res
          map == heap'[data]
      IN \A j \in 1..Len(page.Data) :
           LET member == page.Data[j]
               last == \A k \in (j + 1)..Len(page.Data) :
                         page.Data[k].Email # member.Email
               matches == { k \in 1..Len(page.Included) :
                              page.Included[k].Id = member.UserId }
               first == CHOOSE k \in matches : \A m \in matches : k <= m
           IN (member.Email # "" /\ last) =>
                /\ map[member.Email].Id = member.UserId
                /\ map[member.Email].DiscordId =
                     IF matches = {} THEN None
                     ELSE page.Included[first].Discord]_vars

\* C21 witness: FetchPledges completed with a@x resolved and with c@x unset
\* although a later included resource of its user carries an account, after
\* a first page that held a member whose user only the second page includes.
C21_Witness ==
  /\ pc = "send"
  /\ Len(cycle.pages) = 2
  /\ \E j \in 1..Len(cycle.pages[1].res.Data) :
       /\ cycle.pages[1].res.Data[j].UserId = 8
       /\ \A k \in 1..Len(cycle.pages[1].res.Included) :
            cycle.pages[1].res.Included[k].Id # 8
  /\ heap[data]["c@x"].Id = 4
  /\ heap[data]["c@x"].DiscordId = None
  /\ heap[data]["a@x"].DiscordId = Some(7)


\* C22: in a process that NewClient started without a persisted row (and
\* with the zero credential), the cycle passes the expiry check and then
\* enters RefreshCredentials; the process does not stop on the fatal
\* expired-credential condition.
C22_NoCredentialGoesToRefresh ==
  [][/\ (queryErr = "ErrNoRows" /\ pc = "start" /\ pc' # "start")
          => (alive' /\ pc' = "due")
     /\ (queryErr = "ErrNoRows" /\ pc = "due" /\ pc' # "due")
          => pc' = "rwait"]_vars

\* C23: whenever RefreshCredentials is not under way, the credential in
\* memory is the persisted row (the zero credential when there is no row).
C23_MemoryEqualsRow ==
  (patreonClient # None /\ cycle.refresh # "run") => Tokens = LoadTokens(db)

\* C24: two publishes of the same byEmail map leave the same byDiscordId
\* map: when UpdatePledges is about to return with the byEmail of the
\* snapshot before, byDiscordId is that of the snapshot before as well.
C24_SameByEmailSameByDiscordId ==
  (cpc = "unlock" /\ lastPublished.byEmail = Visible.byEmail)
     => lastPublished.byDiscordId = Visible.byDiscordId

=============================================================================
